---- MODULE Spec2Model ----
(***************************************************************************)
(* JWT verification engine of src/envoy/http/jwt_auth/jwt.cc:              *)
(* Base64UrlDecode, Jwt::Jwt, Pubkeys::CreateFrom and Verifier::Verify.    *)
(*                                                                         *)
(* Texts that the code indexes character by character (the raw token, its  *)
(* segments, the JWK members n/e/x/y, the PEM body) are sequences of byte  *)
(* values 0..255.  JSON member names and the string values the code only   *)
(* compares (alg, kid, kty, iss, sub, aud) are TLA+ strings.               *)
(*                                                                         *)
(* Library code the engine calls (protobuf JsonStringToMessage, Envoy      *)
(* Base64::decode and StringUtil::splitToken, the BoringSSL primitives) is *)
(* modelled by its contract on a finite codebook of documents, keys and    *)
(* signatures.                                                             *)
(*                                                                         *)
(* jwt.cc carries unresolved merge markers around the "aud" and "keys"     *)
(* extraction (lines 387-415 and 589-606).  The HEAD side is the one that  *)
(* fits the rest of the file (payload_fields, actual_keys and the          *)
(* getProtoListValue helpers defined in the same file); it is the side     *)
(* modelled here.                                                          *)
(***************************************************************************)
EXTENDS Integers, Sequences, FiniteSets, TLC

(***************************************************************************)
(* Characters                                                              *)
(***************************************************************************)
DOT == 46
PAD == 61
MINUS == 45
UNDERSCORE == 95
PLUS == 43
SLASH == 47

(* kReverseLookupTableBase64Url, indexed from 0 in the source (from 1 here) *)
kReverseLookupTableBase64Url ==
  << 64, 64, 64, 64, 64, 64, 64, 64, 64, 64, 64, 64, 64, 64, 64, 64, 64, 64, 64,
     64, 64, 64, 64, 64, 64, 64, 64, 64, 64, 64, 64, 64, 64, 64, 64, 64, 64, 64,
     64, 64, 64, 64, 64, 64, 64, 62, 64, 64, 52, 53, 54, 55, 56, 57, 58, 59, 60,
     61, 64, 64, 64, 64, 64, 64, 64, 0,  1,  2,  3,  4,  5,  6,  7,  8,  9,  10,
     11, 12, 13, 14, 15, 16, 17, 18, 19, 20, 21, 22, 23, 24, 25, 64, 64, 64, 64,
     63, 64, 26, 27, 28, 29, 30, 31, 32, 33, 34, 35, 36, 37, 38, 39, 40, 41, 42,
     43, 44, 45, 46, 47, 48, 49, 50, 51, 64, 64, 64, 64, 64, 64, 64, 64, 64, 64,
     64, 64, 64, 64, 64, 64, 64, 64, 64, 64, 64, 64, 64, 64, 64, 64, 64, 64, 64,
     64, 64, 64, 64, 64, 64, 64, 64, 64, 64, 64, 64, 64, 64, 64, 64, 64, 64, 64,
     64, 64, 64, 64, 64, 64, 64, 64, 64, 64, 64, 64, 64, 64, 64, 64, 64, 64, 64,
     64, 64, 64, 64, 64, 64, 64, 64, 64, 64, 64, 64, 64, 64, 64, 64, 64, 64, 64,
     64, 64, 64, 64, 64, 64, 64, 64, 64, 64, 64, 64, 64, 64, 64, 64, 64, 64, 64,
     64, 64, 64, 64, 64, 64, 64, 64, 64, 64, 64, 64, 64, 64, 64, 64, 64, 64, 64,
     64, 64, 64, 64, 64, 64, 64, 64, 64 >>

(* IsNotBase64UrlChar with the table of standard base64, in which '+' and  *)
(* '/' have a value                                                        *)
IsNotBase64UrlChar_StandardTable(c, outside) ==
  IF c = PLUS \/ c = SLASH THEN FALSE
  ELSE IF c < 128 THEN (kReverseLookupTableBase64Url[c + 1] \div 64) % 2 = 1
  ELSE c \in outside

(* bool IsNotBase64UrlChar(int8_t c): table[c] & 64.  A byte of 128 or     *)
(* more arrives as a negative c and the read is outside the table: what it *)
(* gives is not determined by the program, and outside is the set of such  *)
(* bytes for which the value read has the bit 64 set.                      *)
IsNotBase64UrlChar(c, outside) ==
  IF c < 128 THEN (kReverseLookupTableBase64Url[c + 1] \div 64) % 2 = 1
  ELSE c \in outside

(* std::replace(input.begin(), input.end(), from, to) *)
Replace(input, from, to) ==
  [i \in 1..Len(input) |-> IF input[i] = from THEN to ELSE input[i]]

(* Value of a character of the standard base64 alphabet, 64 when it has none *)
ReverseLookupBase64(c) ==
  IF c = PLUS THEN 62
  ELSE IF c = SLASH THEN 63
  ELSE IF c \in 48..57 \/ c \in 65..90 \/ c \in 97..122
       THEN kReverseLookupTableBase64Url[c + 1]
  ELSE 64

(* Envoy Base64::decode: groups of four characters give three bytes; the    *)
(* input length must be a positive multiple of four, '=' may only close the *)
(* last group, and the bits a padded group leaves unused must be zero.      *)
Base64Decode(input) ==
  LET n == Len(input)
      npad == IF input[n] # PAD THEN 0 ELSE IF input[n - 1] # PAD THEN 1 ELSE 2
      v(i) == ReverseLookupBase64(input[i])
      byte(k) ==
        LET g == 4 * ((k - 1) \div 3)
        IN  CASE (k - 1) % 3 = 0 -> (v(g + 1) * 4 + v(g + 2) \div 16) % 256
              [] (k - 1) % 3 = 1 -> (v(g + 2) * 16 + v(g + 3) \div 4) % 256
              [] (k - 1) % 3 = 2 -> (v(g + 3) * 64 + v(g + 4)) % 256
  IN  IF n % 4 # 0 \/ n = 0 THEN <<>>
      ELSE IF \E i \in 1..(n - npad) : v(i) = 64 THEN <<>>
      ELSE IF npad = 2 /\ v(n - 2) % 16 # 0 THEN <<>>
      ELSE IF npad = 1 /\ v(n - 1) % 4 # 0 THEN <<>>
      ELSE [k \in 1..((n \div 4) * 3 - npad) |-> byte(k)]

(* Base64UrlDecode that removes the trailing '=' whatever the length is *)
Base64UrlDecodeReading_StripAnyLength(input, outside) ==
  LET len == Len(input)
      stripped ==
        IF input[len] = PAD
        THEN IF len > 1 /\ input[len - 1] = PAD THEN SubSeq(input, 1, len - 2)
             ELSE SubSeq(input, 1, len - 1)
        ELSE input
      replaced == Replace(Replace(stripped, MINUS, PLUS), UNDERSCORE, SLASH)
      padded ==
        CASE Len(replaced) % 4 = 0 -> replaced
          [] Len(replaced) % 4 = 2 -> replaced \o <<PAD, PAD>>
          [] Len(replaced) % 4 = 3 -> replaced \o <<PAD>>
          [] OTHER -> <<>>
  IN  IF \E i \in 1..Len(stripped) : IsNotBase64UrlChar(stripped[i], outside) THEN <<>>
      ELSE IF Len(replaced) % 4 = 1 THEN <<>>
      ELSE Base64Decode(padded)

(* lines 104-112 for a non-empty input: what the pop_back calls leave *)
StripPadding(input) ==
  LET len == Len(input)
  IN  IF len % 4 = 0 /\ input[len] = PAD
      THEN IF input[len - 1] = PAD THEN SubSeq(input, 1, len - 2)
           ELSE SubSeq(input, 1, len - 1)
      ELSE input

(* lines 106 and 108: the indexes (from 0, as in the source) at which input  *)
(* is read; for the empty input the first read is at -1 and before is the   *)
(* byte it gives                                                            *)
InputReads(input, before) ==
  LET len == Len(input)
      last == IF len = 0 THEN before ELSE input[len]
  IN  IF len % 4 # 0 THEN {}
      ELSE IF last = PAD THEN {len - 1, len - 2}
      ELSE {len - 1}

(* static_cast<int32_t>(c) of the int8_t c that holds the byte *)
TableIndex(c) == IF c < 128 THEN c ELSE c - 256

(* line 115: the indexes at which find_if, through IsNotBase64UrlChar, reads *)
(* the table: one for each character up to the first that is rejected       *)
TableReads(input, outside) ==
  LET stripped == StripPadding(input)
      rejected == {i \in 1..Len(stripped) : IsNotBase64UrlChar(stripped[i], outside)}
  IN  {TableIndex(stripped[i]) :
         i \in {j \in 1..Len(stripped) : \A r \in rejected : j <= r}}

(* std::string Base64UrlDecode(std::string input), for a non-empty input;   *)
(* outside is the set of bytes that the reads outside the table reject      *)
Base64UrlDecodeReading(input, outside) ==
  LET stripped == StripPadding(input)
      replaced == Replace(Replace(stripped, MINUS, PLUS), UNDERSCORE, SLASH)
      padded ==
        CASE Len(replaced) % 4 = 0 -> replaced
          [] Len(replaced) % 4 = 2 -> replaced \o <<PAD, PAD>>
          [] Len(replaced) % 4 = 3 -> replaced \o <<PAD>>
          [] OTHER -> <<>>
  IN  IF \E i \in 1..Len(stripped) : IsNotBase64UrlChar(stripped[i], outside) THEN <<>>
      ELSE IF Len(replaced) % 4 = 1 THEN <<>>
      ELSE Base64Decode(padded)

(* Base64UrlDecode of a text of bytes below 128: every read is inside the   *)
(* table                                                                    *)
Base64UrlDecode(input) == Base64UrlDecodeReading(input, {})

(***************************************************************************)
(* Encoders used to write the inputs down (not part of the engine)         *)
(***************************************************************************)
Base64UrlAlphabet ==
  [v \in 0..63 |-> IF v < 26 THEN 65 + v
                   ELSE IF v < 52 THEN 97 + (v - 26)
                   ELSE IF v < 62 THEN 48 + (v - 52)
                   ELSE IF v = 62 THEN MINUS ELSE UNDERSCORE]

Base64UrlEncode(bytes) ==
  LET n == Len(bytes)
      byte(i) == IF i <= n THEN bytes[i] ELSE 0
      char(j) ==
        LET g == 3 * ((j - 1) \div 4)
        IN  CASE (j - 1) % 4 = 0 -> byte(g + 1) \div 4
              [] (j - 1) % 4 = 1 -> (byte(g + 1) % 4) * 16 + byte(g + 2) \div 16
              [] (j - 1) % 4 = 2 -> (byte(g + 2) % 16) * 4 + byte(g + 3) \div 64
              [] (j - 1) % 4 = 3 -> byte(g + 3) % 64
  IN  [j \in 1..((8 * n + 5) \div 6) |-> Base64UrlAlphabet[char(j)]]

(***************************************************************************)
(* Status (jwt.h) and the status holder WithStatus                         *)
(***************************************************************************)
OK == "OK"

(* WithStatus::UpdateStatus: the status is OK or the first error recorded *)
UpdateStatus(status_, status) == IF status_ = OK THEN status ELSE status_

(***************************************************************************)
(* JSON values (google::protobuf::Value) and objects (Struct fields)       *)
(***************************************************************************)
NoFields == [k \in {} |-> 0]
Absent == [kind |-> "absent", str |-> "", num |-> 0, values |-> <<>>, fields |-> NoFields]
Str(s) == [kind |-> "string", str |-> s, num |-> 0, values |-> <<>>, fields |-> NoFields]
Num(n) == [kind |-> "number", str |-> "", num |-> n, values |-> <<>>, fields |-> NoFields]
List(vs) == [kind |-> "list", str |-> "", num |-> 0, values |-> vs, fields |-> NoFields]
Struct(fs) == [kind |-> "struct", str |-> "", num |-> 0, values |-> <<>>, fields |-> fs]

(* struct_value.find(key): Absent stands for find() == end() *)
Find(fields, key) == IF key \in DOMAIN fields THEN fields[key] ELSE Absent

(* Value::list_value(): the elements of a list, the empty default instance *)
(* for a value of any other kind                                           *)
ListValueValues(v) == IF v.kind = "list" THEN v.values ELSE <<>>

NullOpt == [has_value |-> FALSE, list |-> <<>>, str |-> "", num |-> 0]
OptStr(s) == [has_value |-> TRUE, list |-> <<>>, str |-> s, num |-> 0]
OptNum(n) == [has_value |-> TRUE, list |-> <<>>, str |-> "", num |-> n]
OptList(l) == [has_value |-> TRUE, list |-> l, str |-> "", num |-> 0]

(* getProtoListValue<std::string> *)
getProtoListValueString(fields, key) ==
  LET v == Find(fields, key)
      vs == ListValueValues(v)
  IN  IF v.kind = "absent" THEN NullOpt
      ELSE IF \E i \in 1..Len(vs) : vs[i].kind # "string" THEN NullOpt
      ELSE OptList([i \in 1..Len(vs) |-> vs[i].str])

(* getProtoListValue<google::protobuf::Struct> *)
getProtoListValueStruct(fields, key) ==
  LET v == Find(fields, key)
      vs == ListValueValues(v)
  IN  IF v.kind = "absent" THEN NullOpt
      ELSE IF \E i \in 1..Len(vs) : vs[i].kind # "struct" THEN NullOpt
      ELSE OptList([i \in 1..Len(vs) |-> vs[i].fields])

(* getProtoMapValue<std::string> *)
getProtoMapValueString(fields, key) ==
  LET v == Find(fields, key)
  IN  IF v.kind # "string" THEN NullOpt ELSE OptStr(v.str)

(* getProtoMapValue<uint64_t> *)
getProtoMapValueUint64(fields, key) ==
  LET v == Find(fields, key)
  IN  IF v.kind # "number" THEN NullOpt ELSE OptNum(v.num)

ValueOrStr(opt, dflt) == IF opt.has_value THEN opt.str ELSE dflt
ValueOrNum(opt, dflt) == IF opt.has_value THEN opt.num ELSE dflt

(***************************************************************************)
(* Codebook of JSON documents: the one-byte text <<d>> stands for the JSON *)
(* text of document d; every other text is not a JSON object.              *)
(***************************************************************************)
AlgChoices ==
  << Absent, Num(1), Str("none"), Str("RS256"), Str("RS384"), Str("RS512"), Str("ES256") >>
KidChoices == << Absent, Num(7), Str(""), Str("k1"), Str("k2") >>
AudChoices ==
  << Absent, Str("a"), List(<<Str("a"), Str("b")>>), List(<<Str("a"), Num(5)>>),
     Num(5), List(<<>>) >>
ClaimChoices ==
  << [iss |-> Absent, sub |-> Absent, exp |-> Absent],
     [iss |-> Str("issuer"), sub |-> Str("subject"), exp |-> Num(1234)],
     [iss |-> Num(1), sub |-> List(<<>>), exp |-> Str("1234")] >>

(* A Struct holds the members that are present *)
MkStruct(members) ==
  [k \in {m \in DOMAIN members : members[m].kind # "absent"} |-> members[k]]

NumHeaderDocs == Len(AlgChoices) * Len(KidChoices)
PayloadBase == NumHeaderDocs
NumPayloadDocs == Len(AudChoices) * Len(ClaimChoices)

HeaderDocCode(ai, ki) == (ai - 1) * Len(KidChoices) + (ki - 1)
PayloadDocCode(ui, ci) == PayloadBase + (ui - 1) * Len(ClaimChoices) + (ci - 1)

HeaderDoc(d) ==
  MkStruct([alg |-> AlgChoices[(d \div Len(KidChoices)) + 1],
            kid |-> KidChoices[(d % Len(KidChoices)) + 1]])
PayloadDoc(d) ==
  LET c == ClaimChoices[((d - PayloadBase) % Len(ClaimChoices)) + 1]
  IN  MkStruct([aud |-> AudChoices[((d - PayloadBase) \div Len(ClaimChoices)) + 1],
                iss |-> c.iss, sub |-> c.sub, exp |-> c.exp])

(* google::protobuf::util::JsonStringToMessage(text, &struct) *)
JsonStringToMessage(text) ==
  IF Len(text) = 1 /\ text[1] \in 0..(NumHeaderDocs - 1)
    THEN [ok |-> TRUE, fields |-> HeaderDoc(text[1])]
  ELSE IF Len(text) = 1 /\ text[1] \in PayloadBase..(PayloadBase + NumPayloadDocs - 1)
    THEN [ok |-> TRUE, fields |-> PayloadDoc(text[1])]
  ELSE [ok |-> FALSE, fields |-> NoFields]

(***************************************************************************)
(* Jwt                                                                     *)
(***************************************************************************)
(* std::count(jwt.begin(), jwt.end(), c) *)
Count(s, c) == Cardinality({i \in 1..Len(s) : s[i] = c})

(* StringUtil::splitToken(source, delimiter): the maximal non-empty runs   *)
(* without the delimiter, in order (empty tokens are dropped)              *)
splitToken(s, c) ==
  LET cuts == {i \in 1..Len(s) : s[i] = c} \cup {0, Len(s) + 1}
      cut(k) == CHOOSE i \in cuts : Cardinality({j \in cuts : j < i}) = k - 1
      runs == [k \in 1..(Cardinality(cuts) - 1) |-> SubSeq(s, cut(k) + 1, cut(k + 1) - 1)]
  IN  SelectSeq(runs, LAMBDA run : run # <<>>)

(* A Jwt whose constructor has assigned nothing yet *)
DefaultJwt ==
  [ status_ |-> OK,
    header_str_base64url_ |-> <<>>, header_str_ |-> <<>>,
    alg_ |-> "", kid_ |-> "",
    payload_str_base64url_ |-> <<>>, payload_str_ |-> <<>>,
    iss_ |-> "", sub_ |-> "", aud_ |-> <<>>, exp_ |-> 0,
    signature_ |-> <<>>,
    decoded |-> <<>> ]

Fail(j, status) == [j EXCEPT !.status_ = UpdateStatus(j.status_, status)]

(* lines 385-394 (HEAD): aud as a string array, else as a string *)
JwtAud(payload_fields) ==
  LET actual_list_aud == getProtoListValueString(payload_fields, "aud")
      actual_str_aud == getProtoMapValueString(payload_fields, "aud")
  IN  IF actual_list_aud.has_value THEN actual_list_aud.list
      ELSE IF actual_str_aud.has_value THEN <<actual_str_aud.str>>
      ELSE <<>>

(* The signature step without the test for an empty signature_ *)
JwtSignature_NoEmptyTest(j, seg) ==
  [j EXCEPT !.signature_ = Base64UrlDecode(seg), !.decoded = Append(j.decoded, seg)]

(* lines 417-424: the signature *)
JwtSignature(j, seg) ==
  LET j1 == [j EXCEPT !.signature_ = Base64UrlDecode(seg),
                      !.decoded = Append(j.decoded, seg)]
  IN  IF j1.signature_ = <<>> THEN Fail(j1, "JWT_SIGNATURE_PARSE_ERROR") ELSE j1

(* lines 367-415: the payload *)
JwtPayload(j, jwt_split) ==
  LET j1 == [j EXCEPT !.payload_str_base64url_ = jwt_split[2],
                      !.payload_str_ = Base64UrlDecode(jwt_split[2]),
                      !.decoded = Append(j.decoded, jwt_split[2])]
      parsed == JsonStringToMessage(j1.payload_str_)
      payload_fields == parsed.fields
      j2 == [j1 EXCEPT
               !.iss_ = ValueOrStr(getProtoMapValueString(payload_fields, "iss"), ""),
               !.sub_ = ValueOrStr(getProtoMapValueString(payload_fields, "sub"), ""),
               !.exp_ = ValueOrNum(getProtoMapValueUint64(payload_fields, "exp"), 0),
               !.aud_ = JwtAud(payload_fields)]
  IN  IF ~parsed.ok THEN Fail(j1, "JWT_PAYLOAD_PARSE_ERROR")
      ELSE JwtSignature(j2, jwt_split[3])

(* JwtHeaderFields that takes any string as alg *)
JwtHeaderFields_AnyAlg(j, header_fields, jwt_split) ==
  LET alg_field == Find(header_fields, "alg")
      kid_field == Find(header_fields, "kid")
      j1 == [j EXCEPT !.alg_ = alg_field.str]
      j2 == [j1 EXCEPT !.kid_ = IF kid_field.kind # "absent" THEN kid_field.str ELSE ""]
  IN  IF alg_field.kind = "absent" THEN Fail(j, "JWT_HEADER_NO_ALG")
      ELSE IF alg_field.kind # "string" THEN Fail(j, "JWT_HEADER_BAD_ALG")
      ELSE IF kid_field.kind # "absent" /\ kid_field.kind # "string"
        THEN Fail(j1, "JWT_HEADER_BAD_KID")
      ELSE JwtPayload(j2, jwt_split)

(* lines 335-365: alg and kid of the header *)
JwtHeaderFields(j, header_fields, jwt_split) ==
  LET alg_field == Find(header_fields, "alg")
      kid_field == Find(header_fields, "kid")
      j1 == [j EXCEPT !.alg_ = alg_field.str]
      j2 == [j1 EXCEPT !.kid_ = IF kid_field.kind # "absent" THEN kid_field.str ELSE ""]
  IN  IF alg_field.kind = "absent" THEN Fail(j, "JWT_HEADER_NO_ALG")
      ELSE IF alg_field.kind # "string" THEN Fail(j, "JWT_HEADER_BAD_ALG")
      ELSE IF j1.alg_ # "RS256" /\ j1.alg_ # "ES256" /\ j1.alg_ # "RS384" /\ j1.alg_ # "RS512"
        THEN Fail(j1, "ALG_NOT_IMPLEMENTED")
      ELSE IF kid_field.kind # "absent" /\ kid_field.kind # "string"
        THEN Fail(j1, "JWT_HEADER_BAD_KID")
      ELSE JwtPayload(j2, jwt_split)

(* lines 324-333: the header *)
JwtHeader(j, jwt_split) ==
  LET j1 == [j EXCEPT !.header_str_base64url_ = jwt_split[1],
                      !.header_str_ = Base64UrlDecode(jwt_split[1]),
                      !.decoded = Append(j.decoded, jwt_split[1])]
      parsed == JsonStringToMessage(j1.header_str_)
  IN  IF ~parsed.ok THEN Fail(j1, "JWT_HEADER_PARSE_ERROR")
      ELSE JwtHeaderFields(j1, parsed.fields, jwt_split)

(* Jwt::Jwt that reports a split into other than three segments as a       *)
(* signature that does not parse                                           *)
Jwt_SizeAsSignatureError(jwt) ==
  LET jwt_split == splitToken(jwt, DOT)
  IN  IF Count(jwt, DOT) # 2 THEN Fail(DefaultJwt, "JWT_BAD_FORMAT")
      ELSE IF Len(jwt_split) # 3 THEN Fail(DefaultJwt, "JWT_SIGNATURE_PARSE_ERROR")
      ELSE JwtHeader(DefaultJwt, jwt_split)

(* Jwt::Jwt that only counts the segments of the split *)
Jwt_SegmentsOnly(jwt) ==
  LET jwt_split == splitToken(jwt, DOT)
  IN  IF Len(jwt_split) # 3 THEN Fail(DefaultJwt, "JWT_BAD_FORMAT")
      ELSE JwtHeader(DefaultJwt, jwt_split)

(* Jwt::Jwt(const std::string &jwt) *)
Jwt(jwt) ==
  LET jwt_split == splitToken(jwt, DOT)
  IN  IF Count(jwt, DOT) # 2 THEN Fail(DefaultJwt, "JWT_BAD_FORMAT")
      ELSE IF Len(jwt_split) # 3 THEN Fail(DefaultJwt, "JWT_BAD_FORMAT")
      ELSE JwtHeader(DefaultJwt, jwt_split)

(***************************************************************************)
(* Codebook of keys and signatures (BoringSSL)                             *)
(***************************************************************************)
(* Characters of the strings that appear as n, e, x, y of a JWK *)
Chars(s) ==
  CASE s = "AQ" -> <<65, 81>>
    [] s = "Ag" -> <<65, 103>>
    [] s = "BA" -> <<66, 65>>
    [] s = "Bw" -> <<66, 119>>
    [] s = "AQAB" -> <<65, 81, 65, 66>>
    [] s = "A" -> <<65>>
    [] s = "A+" -> <<65, 43>>
    [] s = "AQ==" -> <<65, 81, 61, 61>>

NullKey == [type |-> "null", a |-> <<>>, b |-> <<>>]
RsaKey(n, e) == [type |-> "RSA", a |-> n, b |-> e]
EcKey(x, y) == [type |-> "EC", a |-> x, b |-> y]

(* RSA_public_key_from_bytes: a DER SEQUENCE (tag 0x30) of modulus and exponent *)
DerSequenceTag == 3 * 16
RSA_public_key_from_bytes(der) ==
  IF Len(der) = 3 /\ der[1] = DerSequenceTag THEN RsaKey(<<der[2]>>, <<der[3]>>)
  ELSE NullKey

(* EC_KEY_set_public_key_affine_coordinates accepts the points of the curve *)
OnCurve(x, y) == Len(x) = 1 /\ Len(y) = 1 /\ y[1] = (3 * x[1] + 1) % 256

(* Digest of the signed text under md *)
RECURSIVE WeightedSum(_, _, _)
WeightedSum(data, lo, hi) ==
  IF lo > hi THEN 0
  ELSE IF lo = hi THEN (lo * data[lo]) % 251
  ELSE (WeightedSum(data, lo, (lo + hi) \div 2) +
        WeightedSum(data, (lo + hi) \div 2 + 1, hi)) % 251
MdCode(md) == CASE md = "sha256" -> 1 [] md = "sha384" -> 2 [] md = "sha512" -> 3
Digest(md, data) == (MdCode(md) + WeightedSum(data, 1, Len(data))) % 251

Zeros(n) == [i \in 1..n |-> 0]

(* The signature the owner of an RSA key makes over data with digest md *)
RsaSign(key, md, data) == << key.a[1], MdCode(md), Digest(md, data) >>
(* The 64-byte (r, s) signature the owner of an EC key makes over data *)
EcSign(key, data) == << key.a[1], Digest("sha256", data) >> \o Zeros(62)

(* EVP_DigestVerifyInit / Update / Final *)
EVP_DigestVerify(key, md, signature, signed_data) ==
  /\ key.type = "RSA"
  /\ signature = RsaSign(key, md, signed_data)

(* ECDSA_do_verify over the SHA-256 digest, r and s of 32 bytes each *)
ECDSA_do_verify(key, signature, signed_data) ==
  /\ key.type = "EC"
  /\ signature = EcSign(key, signed_data)

(***************************************************************************)
(* EvpPkeyGetter                                                           *)
(***************************************************************************)
(* BigNumFromBase64UrlString: <<>> stands for nullptr *)
BigNumFromBase64UrlString(s) == Base64UrlDecode(s)

(* EvpPkeyFromStr that reports every failure as PEM_PUBKEY_BAD_BASE64 *)
EvpPkeyFromStr_OneError(pkey_pem) ==
  LET pkey_der == Base64Decode(pkey_pem)
      rsa == RSA_public_key_from_bytes(pkey_der)
  IN  IF pkey_der = <<>> \/ rsa = NullKey
        THEN [status_ |-> "PEM_PUBKEY_BAD_BASE64", key |-> NullKey]
      ELSE [status_ |-> OK, key |-> rsa]

(* EvpPkeyFromStr *)
EvpPkeyFromStr(pkey_pem) ==
  LET pkey_der == Base64Decode(pkey_pem)
      rsa == RSA_public_key_from_bytes(pkey_der)
  IN  IF pkey_der = <<>> THEN [status_ |-> "PEM_PUBKEY_BAD_BASE64", key |-> NullKey]
      ELSE IF rsa = NullKey
        THEN [status_ |-> UpdateStatus(OK, "PEM_PUBKEY_PARSE_ERROR"), key |-> NullKey]
      ELSE [status_ |-> OK, key |-> rsa]

(* EvpPkeyFromJwkRSA with RsaFromJwk *)
EvpPkeyFromJwkRSA(n, e) ==
  LET rsa_n == BigNumFromBase64UrlString(n)
      rsa_e == BigNumFromBase64UrlString(e)
  IN  IF rsa_n = <<>> \/ rsa_e = <<>>
        THEN [status_ |-> UpdateStatus(OK, "JWK_RSA_PUBKEY_PARSE_ERROR"), key |-> NullKey]
      ELSE [status_ |-> OK, key |-> RsaKey(rsa_n, rsa_e)]

(* EcKeyFromJwkEC; ec_key_new tells whether EC_KEY_new_by_curve_name yields *)
(* an object                                                                *)
EcKeyFromJwkEC(x, y, ec_key_new) ==
  LET bn_x == BigNumFromBase64UrlString(x)
      bn_y == BigNumFromBase64UrlString(y)
  IN  IF ~ec_key_new
        THEN [status_ |-> UpdateStatus(OK, "FAILED_CREATE_EC_KEY"), key |-> NullKey]
      ELSE IF bn_x = <<>> \/ bn_y = <<>>
        THEN [status_ |-> UpdateStatus(OK, "JWK_EC_PUBKEY_PARSE_ERROR"), key |-> NullKey]
      ELSE IF ~OnCurve(bn_x, bn_y)
        THEN [status_ |-> UpdateStatus(OK, "JWK_EC_PUBKEY_PARSE_ERROR"), key |-> NullKey]
      ELSE [status_ |-> OK, key |-> EcKey(bn_x, bn_y)]

(***************************************************************************)
(* Pubkeys                                                                 *)
(***************************************************************************)
(* new Pubkey() *)
NewPubkey ==
  [ kid_ |-> "", kid_specified_ |-> FALSE, alg_ |-> "", alg_specified_ |-> FALSE,
    kty_ |-> "", pem_format_ |-> FALSE, evp_pkey_ |-> NullKey, ec_key_ |-> NullKey ]

(* new Pubkeys() *)
NewPubkeys == [status_ |-> OK, keys_ |-> <<>>]

(* Pubkeys::CreateFromPemCore *)
CreateFromPemCore(pkey_pem) ==
  LET e == EvpPkeyFromStr(pkey_pem)
      key_ptr == [NewPubkey EXCEPT !.evp_pkey_ = e.key, !.pem_format_ = TRUE]
      status == UpdateStatus(NewPubkeys.status_, e.status_)
  IN  IF e.status_ = OK THEN [status_ |-> status, keys_ |-> <<key_ptr>>]
      ELSE [status_ |-> status, keys_ |-> <<>>]

(* Pubkeys::ExtractPubkeyFromJwkRSA: the Pubkeys object it leaves *)
ExtractPubkeyFromJwkRSA(pubkeys, jwk_field) ==
  LET kid == Find(jwk_field, "kid")
      alg == Find(jwk_field, "alg")
      actual_kid == getProtoMapValueString(jwk_field, "kid")
      actual_alg == getProtoMapValueString(jwk_field, "alg")
      actual_kty == getProtoMapValueString(jwk_field, "kty")
      n_str == getProtoMapValueString(jwk_field, "n")
      e_str == getProtoMapValueString(jwk_field, "e")
      p1 == IF kid.kind # "absent"
            THEN [NewPubkey EXCEPT !.kid_ = actual_kid.str, !.kid_specified_ = TRUE]
            ELSE NewPubkey
      p2 == IF alg.kind # "absent"
            THEN [p1 EXCEPT !.alg_ = actual_alg.str, !.alg_specified_ = TRUE]
            ELSE p1
      p3 == [p2 EXCEPT !.kty_ = actual_kty.str]
      e == EvpPkeyFromJwkRSA(Chars(n_str.str), Chars(e_str.str))
      pubkey == [p3 EXCEPT !.evp_pkey_ = e.key]
  IN  IF kid.kind # "absent" /\ ~actual_kid.has_value THEN pubkeys
      ELSE IF alg.kind # "absent" /\
              (~actual_alg.has_value \/
               ~(actual_alg.str = "RS256" \/ actual_alg.str = "RS384" \/
                 actual_alg.str = "RS512")) THEN pubkeys
      ELSE IF ~n_str.has_value \/ ~e_str.has_value THEN pubkeys
      ELSE IF e.status_ = OK
        THEN [pubkeys EXCEPT !.keys_ = Append(pubkeys.keys_, pubkey)]
      ELSE [pubkeys EXCEPT !.status_ = UpdateStatus(pubkeys.status_, e.status_)]

(* Pubkeys::ExtractPubkeyFromJwkEC: the Pubkeys object it leaves *)
ExtractPubkeyFromJwkEC(pubkeys, jwk_field, ec_key_new) ==
  LET kid == Find(jwk_field, "kid")
      alg == Find(jwk_field, "alg")
      actual_kid == getProtoMapValueString(jwk_field, "kid")
      actual_alg == getProtoMapValueString(jwk_field, "alg")
      actual_kty == getProtoMapValueString(jwk_field, "kty")
      x_str == getProtoMapValueString(jwk_field, "x")
      y_str == getProtoMapValueString(jwk_field, "y")
      p1 == IF kid.kind # "absent"
            THEN [NewPubkey EXCEPT !.kid_ = actual_kid.str, !.kid_specified_ = TRUE]
            ELSE NewPubkey
      p2 == IF alg.kind # "absent"
            THEN [p1 EXCEPT !.alg_ = actual_alg.str, !.alg_specified_ = TRUE]
            ELSE p1
      p3 == [p2 EXCEPT !.kty_ = actual_kty.str]
      e == EcKeyFromJwkEC(Chars(x_str.str), Chars(y_str.str), ec_key_new)
      pubkey == [p3 EXCEPT !.ec_key_ = e.key]
  IN  IF kid.kind # "absent" /\ ~actual_kid.has_value THEN pubkeys
      ELSE IF alg.kind # "absent" /\ (~actual_alg.has_value \/ actual_alg.str # "ES256")
        THEN pubkeys
      ELSE IF ~actual_kty.has_value THEN pubkeys
      ELSE IF ~x_str.has_value \/ ~y_str.has_value THEN pubkeys
      ELSE IF e.status_ = OK
        THEN [pubkeys EXCEPT !.keys_ = Append(pubkeys.keys_, pubkey)]
      ELSE [pubkeys EXCEPT !.status_ = UpdateStatus(pubkeys.status_, e.status_)]

(* ExtractPubkeyFromJwk that reads every kty other than "EC" as "RSA" *)
ExtractPubkeyFromJwk_ElseRsa(pubkeys, jwk_field, ec_key_new) ==
  LET kty == getProtoMapValueString(jwk_field, "kty")
  IN  IF ~kty.has_value THEN pubkeys
      ELSE IF kty.str = "EC" THEN ExtractPubkeyFromJwkEC(pubkeys, jwk_field, ec_key_new)
      ELSE ExtractPubkeyFromJwkRSA(pubkeys, jwk_field)

(* Pubkeys::ExtractPubkeyFromJwk: the Pubkeys object it leaves *)
ExtractPubkeyFromJwk(pubkeys, jwk_field, ec_key_new) ==
  LET kty == getProtoMapValueString(jwk_field, "kty")
  IN  IF ~kty.has_value THEN pubkeys
      ELSE IF kty.str = "EC" THEN ExtractPubkeyFromJwkEC(pubkeys, jwk_field, ec_key_new)
      ELSE IF kty.str = "RSA" THEN ExtractPubkeyFromJwkRSA(pubkeys, jwk_field)
      ELSE pubkeys

(* lines 608-612: the loop over the elements of "keys"; element number      *)
(* ec_oom (if any) is the one for which EC_KEY_new_by_curve_name fails      *)
RECURSIVE ExtractAll(_, _, _, _)
ExtractAll(pubkeys, actual_keys, i, ec_oom) ==
  IF i > Len(actual_keys) THEN pubkeys
  ELSE ExtractAll(ExtractPubkeyFromJwk(pubkeys, actual_keys[i], i # ec_oom),
                  actual_keys, i + 1, ec_oom)

(* CreateFromJwksCore that does not look at keys_.size() after the loop *)
CreateFromJwksCore_NoSizeCheck(jwks_object, ec_oom) ==
  LET jwks_field == jwks_object.fields
      actual_keys == getProtoListValueStruct(jwks_field, "keys")
  IN  IF ~jwks_object.ok
        THEN [NewPubkeys EXCEPT !.status_ = UpdateStatus(OK, "JWK_PARSE_ERROR")]
      ELSE IF Find(jwks_field, "keys").kind = "absent"
        THEN [NewPubkeys EXCEPT !.status_ = UpdateStatus(OK, "JWK_NO_KEYS")]
      ELSE IF ~actual_keys.has_value
        THEN [NewPubkeys EXCEPT !.status_ = UpdateStatus(OK, "JWK_BAD_KEYS")]
      ELSE ExtractAll(NewPubkeys, actual_keys.list, 1, ec_oom)

(* Pubkeys::CreateFromJwksCore; jwks_object is what JsonStringToMessage     *)
(* makes of the text pkey_jwks                                              *)
CreateFromJwksCore(jwks_object, ec_oom) ==
  LET jwks_field == jwks_object.fields
      actual_keys == getProtoListValueStruct(jwks_field, "keys")
      extracted == ExtractAll(NewPubkeys, actual_keys.list, 1, ec_oom)
  IN  IF ~jwks_object.ok
        THEN [NewPubkeys EXCEPT !.status_ = UpdateStatus(OK, "JWK_PARSE_ERROR")]
      ELSE IF Find(jwks_field, "keys").kind = "absent"
        THEN [NewPubkeys EXCEPT !.status_ = UpdateStatus(OK, "JWK_NO_KEYS")]
      ELSE IF ~actual_keys.has_value
        THEN [NewPubkeys EXCEPT !.status_ = UpdateStatus(OK, "JWK_BAD_KEYS")]
      ELSE IF Len(extracted.keys_) = 0
        THEN [extracted EXCEPT !.status_ = UpdateStatus(extracted.status_, "JWK_NO_VALID_PUBKEY")]
      ELSE extracted

(***************************************************************************)
(* Verifier                                                                *)
(***************************************************************************)
EcSignatureLen == 64

(* VerifySignatureEC that allocates the ECDSA_SIG before it looks at the    *)
(* length of the signature                                                  *)
VerifySignatureEC_AllocFirst(status_, key, signature, signed_data, sig_new) ==
  IF ~sig_new
    THEN [ret |-> FALSE, status_ |-> UpdateStatus(status_, "FAILED_CREATE_ECDSA_SIGNATURE")]
  ELSE IF Len(signature) # EcSignatureLen THEN [ret |-> FALSE, status_ |-> status_]
  ELSE [ret |-> ECDSA_do_verify(key, signature, signed_data), status_ |-> status_]

(* Verifier::VerifySignatureEC; sig_new tells whether ECDSA_SIG_new yields  *)
(* an object                                                                *)
VerifySignatureEC(status_, key, signature, signed_data, sig_new) ==
  IF Len(signature) # EcSignatureLen THEN [ret |-> FALSE, status_ |-> status_]
  ELSE IF ~sig_new
    THEN [ret |-> FALSE, status_ |-> UpdateStatus(status_, "FAILED_CREATE_ECDSA_SIGNATURE")]
  ELSE [ret |-> ECDSA_do_verify(key, signature, signed_data), status_ |-> status_]

(* Verifier::VerifySignatureRSA *)
VerifySignatureRSA(key, md, signature, signed_data) ==
  EVP_DigestVerify(key, md, signature, signed_data)

(* RsaDigest that gives SHA-256 whatever the algorithm is *)
RsaDigest_Sha256Only(alg_) == "sha256"

(* lines 515-523: the digest of an RSA verification *)
RsaDigest(alg_) ==
  IF alg_ = "RS384" THEN "sha384"
  ELSE IF alg_ = "RS512" THEN "sha512"
  ELSE "sha256"

(* KidSkips without the test for a token that declares no kid *)
KidSkips_AlsoForEmptyKid(jwt, pubkey) ==
  pubkey.kid_specified_ /\ pubkey.kid_ # jwt.kid_

(* lines 500 and 505: the two continue statements of the loop *)
KidSkips(jwt, pubkey) ==
  jwt.kid_ # "" /\ pubkey.kid_specified_ /\ pubkey.kid_ # jwt.kid_
AlgSkips(jwt, pubkey) ==
  pubkey.alg_specified_ /\ pubkey.alg_ # jwt.alg_

EcCall(i, key, data) == [entry |-> i, fn |-> "VerifySignatureEC", md |-> "sha256",
                         key |-> key, signed_data |-> data]
RsaCall(i, key, md, data) == [entry |-> i, fn |-> "VerifySignatureRSA", md |-> md,
                              key |-> key, signed_data |-> data]

(* VerifyFailed with the two statuses exchanged *)
VerifyFailed_Exchanged(kid_alg_matched) ==
  IF kid_alg_matched THEN "KID_ALG_UNMATCH" ELSE "JWT_INVALID_SIGNATURE"

(* lines 531-536: the status of a Verify in which no key verified *)
VerifyFailed(kid_alg_matched) ==
  IF kid_alg_matched THEN "JWT_INVALID_SIGNATURE" ELSE "KID_ALG_UNMATCH"

(* VerifyLoop that notes a successful verification and goes on with the    *)
(* remaining entries instead of returning                                  *)
RECURSIVE VerifyLoop_NoEarlyReturn(_, _, _, _, _, _)
VerifyLoop_NoEarlyReturn(st, jwt, keys_, i, signed_data, sig_oom) ==
  IF i > Len(keys_)
  THEN [ret |-> FALSE,
        status_ |-> UpdateStatus(st.status_, VerifyFailed(st.kid_alg_matched)),
        calls |-> st.calls]
  ELSE
    LET pubkey == keys_[i]
        is_ec == pubkey.kty_ = "EC"
        ec == VerifySignatureEC(st.status_, pubkey.ec_key_, jwt.signature_,
                                signed_data, i # sig_oom)
        md == RsaDigest(jwt.alg_)
        is_rsa == (pubkey.pem_format_ \/ pubkey.kty_ = "RSA") /\ ~(is_ec /\ ec.ret)
        rsa == VerifySignatureRSA(pubkey.evp_pkey_, md, jwt.signature_, signed_data)
        calls1 == IF is_ec THEN Append(st.calls, EcCall(i, pubkey.ec_key_, signed_data))
                  ELSE st.calls
        calls2 == IF is_rsa THEN Append(calls1, RsaCall(i, pubkey.evp_pkey_, md, signed_data))
                  ELSE calls1
        st2 == [status_ |-> IF is_ec THEN ec.status_ ELSE st.status_,
                kid_alg_matched |-> TRUE, calls |-> calls2]
        skipped == VerifyLoop_NoEarlyReturn(st, jwt, keys_, i + 1, signed_data, sig_oom)
        rest == VerifyLoop_NoEarlyReturn(st2, jwt, keys_, i + 1, signed_data, sig_oom)
    IN  IF KidSkips(jwt, pubkey) \/ AlgSkips(jwt, pubkey) THEN skipped
        ELSE IF (is_ec /\ ec.ret) \/ (is_rsa /\ rsa)
          THEN [ret |-> TRUE, status_ |-> st2.status_, calls |-> rest.calls]
        ELSE rest

(* lines 496-538: the loop over pubkeys.keys_ from entry i on, and the      *)
(* statements after it.  st holds the Verifier's status_, kid_alg_matched   *)
(* and the VerifySignature calls made so far; entry number sig_oom (if any) *)
(* is the one for which ECDSA_SIG_new fails.                                *)
RECURSIVE VerifyLoop(_, _, _, _, _, _)
VerifyLoop(st, jwt, keys_, i, signed_data, sig_oom) ==
  IF i > Len(keys_)
  THEN [ret |-> FALSE,
        status_ |-> UpdateStatus(st.status_, VerifyFailed(st.kid_alg_matched)),
        calls |-> st.calls]
  ELSE
    LET pubkey == keys_[i]
        is_ec == pubkey.kty_ = "EC"
        ec == VerifySignatureEC(st.status_, pubkey.ec_key_, jwt.signature_,
                                signed_data, i # sig_oom)
        st1 == IF is_ec
               THEN [status_ |-> ec.status_, kid_alg_matched |-> TRUE,
                     calls |-> Append(st.calls, EcCall(i, pubkey.ec_key_, signed_data))]
               ELSE [st EXCEPT !.kid_alg_matched = TRUE]
        md == RsaDigest(jwt.alg_)
        is_rsa == pubkey.pem_format_ \/ pubkey.kty_ = "RSA"
        st2 == IF is_rsa
               THEN [st1 EXCEPT !.calls =
                       Append(st1.calls, RsaCall(i, pubkey.evp_pkey_, md, signed_data))]
               ELSE st1
    IN  IF KidSkips(jwt, pubkey) THEN VerifyLoop(st, jwt, keys_, i + 1, signed_data, sig_oom)
        ELSE IF AlgSkips(jwt, pubkey)
          THEN VerifyLoop(st, jwt, keys_, i + 1, signed_data, sig_oom)
        ELSE IF is_ec /\ ec.ret
          THEN [ret |-> TRUE, status_ |-> st1.status_, calls |-> st1.calls]
        ELSE IF is_rsa /\
                VerifySignatureRSA(pubkey.evp_pkey_, md, jwt.signature_, signed_data)
          THEN [ret |-> TRUE, status_ |-> st2.status_, calls |-> st2.calls]
        ELSE VerifyLoop(st2, jwt, keys_, i + 1, signed_data, sig_oom)

(* VerifierVerify with the two status checks in the other order *)
VerifierVerify_KeysFirst(status_, jwt, pubkeys, sig_oom) ==
  LET signed_data == jwt.header_str_base64url_ \o <<DOT>> \o jwt.payload_str_base64url_
  IN  IF pubkeys.status_ # OK
        THEN [ret |-> FALSE, status_ |-> UpdateStatus(status_, pubkeys.status_), calls |-> <<>>]
      ELSE IF jwt.status_ # OK
        THEN [ret |-> FALSE, status_ |-> UpdateStatus(status_, jwt.status_), calls |-> <<>>]
      ELSE VerifyLoop([status_ |-> status_, kid_alg_matched |-> FALSE, calls |-> <<>>],
                      jwt, pubkeys.keys_, 1, signed_data, sig_oom)

(* Verifier::Verify on a Verifier whose status is status_ *)
VerifierVerify(status_, jwt, pubkeys, sig_oom) ==
  LET signed_data == jwt.header_str_base64url_ \o <<DOT>> \o jwt.payload_str_base64url_
  IN  IF jwt.status_ # OK
        THEN [ret |-> FALSE, status_ |-> UpdateStatus(status_, jwt.status_), calls |-> <<>>]
      ELSE IF pubkeys.status_ # OK
        THEN [ret |-> FALSE, status_ |-> UpdateStatus(status_, pubkeys.status_), calls |-> <<>>]
      ELSE VerifyLoop([status_ |-> status_, kid_alg_matched |-> FALSE, calls |-> <<>>],
                      jwt, pubkeys.keys_, 1, signed_data, sig_oom)

(***************************************************************************)
(* RequestAuthenticator (authn_wasm/authenticator/request.cc)              *)
(***************************************************************************)
(* A header of the RequestHeaderMap: the accessor gives a null pointer for *)
(* a header that the request does not carry                                *)
NoHeader == [present |-> FALSE, value |-> ""]
Header(v) == [present |-> TRUE, value |-> v]

(* lines 45-53: the lambda isCorsPreflightRequest *)
isCorsPreflightRequest(headers) ==
  /\ headers.Method.present
  /\ headers.Method.value = "OPTIONS"
  /\ headers.Origin.present /\ headers.Origin.value # ""
  /\ headers.AccessControlRequestMethod.present
  /\ headers.AccessControlRequestMethod.value # ""

(* RequestAuthenticator::run.  After line 61 the function flows off its end *)
(* without a return statement: the value the caller reads then is not       *)
(* determined by the program, and end_value is that value.                  *)
RequestAuthenticatorRun(policy, headers, end_value) ==
  IF policy.origins_size = 0 /\ policy.principal_binding = "USE_ORIGIN" THEN FALSE
  ELSE IF isCorsPreflightRequest(headers) THEN TRUE
  ELSE end_value

(***************************************************************************)
(* Inputs                                                                  *)
(***************************************************************************)
MaxKeys == 2
MaxVerifies == 2
MaxDecodeLen == 5
MaxOrigins == 2

Key1 == RsaKey(<<1>>, <<1, 0, 1>>)
Key2 == RsaKey(<<2>>, <<1, 0, 1>>)
EcKey1 == EcKey(<<1>>, <<4>>)

UndecodableSeg == <<65, 43>>
NotJsonSeg == Base64UrlEncode(<<255>>)
HeaderSeg(ai, ki) == Base64UrlEncode(<<HeaderDocCode(ai, ki)>>)
PayloadSeg(ui, ci) == Base64UrlEncode(<<PayloadDocCode(ui, ci)>>)

Dotted(h, p, g) == h \o <<DOT>> \o p \o <<DOT>> \o g
SignedText(h, p) == h \o <<DOT>> \o p

HeaderSegs ==
  {HeaderSeg(ai, ki) : ai \in 1..Len(AlgChoices), ki \in 1..Len(KidChoices)}
    \cup {NotJsonSeg, UndecodableSeg}
PayloadSegs ==
  {PayloadSeg(ui, ci) : ui \in 1..Len(AudChoices), ci \in 1..Len(ClaimChoices)}
    \cup {NotJsonSeg, UndecodableSeg}
SignatureSegs(h, p) ==
  { UndecodableSeg,
    Base64UrlEncode(RsaSign(Key1, "sha256", SignedText(h, p))),
    Base64UrlEncode(EcSign(EcKey1, SignedText(h, p))) }

GoodHeader == HeaderSeg(4, 4)
GoodPayload == PayloadSeg(3, 2)
GoodSignature == Base64UrlEncode(RsaSign(Key1, "sha256", SignedText(GoodHeader, GoodPayload)))

(* Texts whose number of '.' is not 2, or that have an empty segment *)
IllFormedTokens ==
  { <<>>, <<DOT>>, <<DOT, DOT>>, <<DOT, DOT, DOT>>,
    GoodHeader,
    GoodHeader \o <<DOT>> \o GoodPayload,
    GoodHeader \o <<DOT>> \o GoodPayload \o <<DOT>>,
    GoodHeader \o <<DOT, DOT>> \o GoodSignature,
    <<DOT>> \o GoodPayload \o <<DOT>> \o GoodSignature,
    Dotted(GoodHeader, GoodPayload, GoodSignature) \o <<DOT>>,
    <<DOT>> \o Dotted(GoodHeader, GoodPayload, GoodSignature),
    Dotted(GoodHeader, GoodPayload, GoodSignature) \o <<DOT>> \o GoodSignature,
    Dotted(GoodHeader, GoodPayload, GoodSignature) \o <<DOT, DOT>> \o GoodSignature,
    Dotted(UndecodableSeg, NotJsonSeg, UndecodableSeg) \o <<DOT>> \o UndecodableSeg }

(* The raw tokens given to Jwt::Jwt in SpecJwt *)
RawTokens ==
  UNION { UNION { {Dotted(h, p, g) : g \in SignatureSegs(h, p)} : p \in PayloadSegs } :
          h \in HeaderSegs }
    \cup IllFormedTokens

(* Texts given to Base64UrlDecode on its own: alphabet characters, '=',     *)
(* characters outside the alphabet and a byte of 128 or more               *)
DecodeChars == {65, 81, MINUS, UNDERSCORE, PAD, PLUS, 200}
DecodeInputs == UNION {[1..n -> DecodeChars] : n \in 0..MaxDecodeLen}
(* What the read before the data of an empty string may give *)
BeforeChoices == {0, PAD}
(* What the reads outside the table may reject: nothing, every byte, some *)
OutsideChoices == {{}, 128..255, 128..191}

(* JWK elements: a well-formed one per key type, and the ways to spoil it *)
Jwk(kty, kid, alg, a, b) ==
  Struct(MkStruct([kty |-> kty, kid |-> kid, alg |-> alg,
                   n |-> IF kty = Str("EC") THEN Absent ELSE a,
                   e |-> IF kty = Str("EC") THEN Absent ELSE b,
                   x |-> IF kty = Str("EC") THEN a ELSE Absent,
                   y |-> IF kty = Str("EC") THEN b ELSE Absent]))

RsaJwk(kid, alg) == Jwk(Str("RSA"), kid, alg, Str("AQ"), Str("AQAB"))
EcJwk(kid, alg) == Jwk(Str("EC"), kid, alg, Str("AQ"), Str("BA"))

UsableJwks ==
  {RsaJwk(kid, alg) : kid \in {Absent, Str("k1")}, alg \in {Absent, Str("RS256")}}
    \cup {EcJwk(kid, alg) : kid \in {Absent, Str("k1")}, alg \in {Absent, Str("ES256")}}
    \cup {Jwk(Str("RSA"), Absent, Str("RS512"), Str("Ag"), Str("AQAB")),
          Jwk(Str("RSA"), Str(""), Absent, Str("AQ=="), Str("AQAB"))}

(* Skipped before any key material is decoded *)
SkippedJwks ==
  { Jwk(Absent, Absent, Absent, Str("AQ"), Str("AQAB")),
    Jwk(Num(1), Absent, Absent, Str("AQ"), Str("AQAB")),
    Jwk(Str("oct"), Absent, Absent, Str("AQ"), Str("AQAB")),
    RsaJwk(Num(1), Absent), EcJwk(Num(1), Absent),
    RsaJwk(Absent, Num(1)), EcJwk(Absent, Num(1)),
    RsaJwk(Absent, Str("HS256")), EcJwk(Absent, Str("HS256")),
    RsaJwk(Absent, Str("ES256")), EcJwk(Absent, Str("RS256")),
    Jwk(Str("RSA"), Absent, Absent, Absent, Str("AQAB")),
    Jwk(Str("RSA"), Absent, Absent, Str("AQ"), Num(3)),
    Jwk(Str("EC"), Absent, Absent, Str("AQ"), Absent),
    Jwk(Str("EC"), Absent, Absent, Num(1), Str("BA")) }

(* n, e, x or y does not decode, or (x, y) is not a point of the curve *)
UndecodableJwks ==
  { Jwk(Str("RSA"), Absent, Absent, Str("A+"), Str("AQAB")),
    Jwk(Str("RSA"), Str("k1"), Str("RS256"), Str("AQ"), Str("A")),
    Jwk(Str("EC"), Absent, Absent, Str("A"), Str("BA")),
    Jwk(Str("EC"), Str("k1"), Str("ES256"), Str("AQ"), Str("A+")),
    Jwk(Str("EC"), Absent, Absent, Str("AQ"), Str("Bw")) }

JwkElements == UsableJwks \cup SkippedJwks \cup UndecodableJwks

SeqsUpTo(S, n) == UNION {[1..k -> S] : k \in 0..n}

JwksObject(keys) == [ok |-> TRUE, fields |-> MkStruct([keys |-> keys])]

(* What JsonStringToMessage makes of the JWKS texts given to CreateFrom *)
JwksObjects ==
  {JwksObject(List(ks)) : ks \in SeqsUpTo(JwkElements, MaxKeys)}
    \cup { [ok |-> FALSE, fields |-> NoFields],
           JwksObject(Absent),
           JwksObject(Str("keys")), JwksObject(Num(1)), JwksObject(RsaJwk(Absent, Absent)),
           JwksObject(List(<<Str("key")>>)),
           JwksObject(List(<<RsaJwk(Absent, Absent), Num(1)>>)) }

(* PEM bodies: a key, a text that is not base64, DER that is not a key *)
Base64Standard(bytes) == Replace(Replace(Base64UrlEncode(bytes), MINUS, PLUS), UNDERSCORE, SLASH)
PemKey1 == Base64Standard(<<DerSequenceTag, 1, 65>>)
PemTexts == { PemKey1, <<>>, <<65>>, <<65, 65, 45, 65>>, Base64Standard(<<49, 1, 65>>),
              Base64Standard(<<DerSequenceTag, 1, 65, 0, 0, 0>>) }

(***************************************************************************)
(* State                                                                   *)
(***************************************************************************)
VARIABLES
  made,        \* the objects constructed so far: "jwt", "pubkeys", "result"
  raw_jwt,     \* the text given to Jwt::Jwt
  jwt,         \* the Jwt
  pkey,        \* the key source given to Pubkeys::CreateFrom
  pubkeys,     \* the Pubkeys
  verifier,    \* the Verifier (its WithStatus) and the number of its Verify calls
  result,      \* what the last Verifier::Verify returned and called
  decode,      \* the last Base64UrlDecode call made on its own: input and output
  request      \* the last RequestAuthenticator::run: policy, headers, value returned

vars == <<made, raw_jwt, jwt, pkey, pubkeys, verifier, result, decode, request>>

NoPkey == [type |-> "none", pem |-> <<>>, jwks |-> [ok |-> FALSE, fields |-> NoFields],
           ec_oom |-> 0]
NoResult == [ret |-> FALSE, calls |-> <<>>, sig_oom |-> 0]
NoDecode == [input |-> <<>>, outside |-> {}, before |-> 0, output |-> <<>>,
             aborted |-> FALSE, input_reads |-> {}, table_reads |-> {}]
NoRequest == [policy |-> [origins_size |-> 0, principal_binding |-> "USE_PEER"],
              headers |-> [Method |-> NoHeader, Origin |-> NoHeader,
                           AccessControlRequestMethod |-> NoHeader],
              ret |-> FALSE]

Init ==
  /\ made = {}
  /\ raw_jwt = <<>>
  /\ jwt = DefaultJwt
  /\ pkey = NoPkey
  /\ pubkeys = NewPubkeys
  /\ verifier = [status_ |-> OK, verifies |-> 0]
  /\ result = NoResult
  /\ decode = NoDecode
  /\ request = NoRequest

(* The elements of "keys" that make ExtractPubkeyFromJwkEC allocate an EC_KEY *)
EcElements(values) ==
  {i \in 1..Len(values) : Find(values[i].fields, "kty") = Str("EC")}
(* The entries for which Verify calls VerifySignatureEC *)
EcEntries(keys_) == {i \in 1..Len(keys_) : keys_[i].kty_ = "EC"}

(* Jwt jwt(text) for a text of the set tokens *)
NewJwt(tokens) ==
  /\ "jwt" \notin made
  /\ \E text \in tokens :
       /\ raw_jwt' = text
       /\ jwt' = Jwt(text)
  /\ made' = made \cup {"jwt"}
  /\ UNCHANGED <<pkey, pubkeys, verifier, result, decode, request>>

(* Pubkeys::CreateFrom(text, Type::JWKS) *)
CreateFromJwks(objects) ==
  /\ "pubkeys" \notin made
  /\ \E jwks_object \in objects :
       \E ec_oom \in EcElements(ListValueValues(Find(jwks_object.fields, "keys"))) \cup {0} :
         /\ pkey' = [type |-> "JWKS", pem |-> <<>>, jwks |-> jwks_object, ec_oom |-> ec_oom]
         /\ pubkeys' = CreateFromJwksCore(jwks_object, ec_oom)
  /\ made' = made \cup {"pubkeys"}
  /\ UNCHANGED <<raw_jwt, jwt, verifier, result, decode, request>>

(* Pubkeys::CreateFrom(text, Type::PEM) *)
CreateFromPem(texts) ==
  /\ "pubkeys" \notin made
  /\ \E pkey_pem \in texts :
       /\ pkey' = [NoPkey EXCEPT !.type = "PEM", !.pem = pkey_pem]
       /\ pubkeys' = CreateFromPemCore(pkey_pem)
  /\ made' = made \cup {"pubkeys"}
  /\ UNCHANGED <<raw_jwt, jwt, verifier, result, decode, request>>

(* Verifier v; v.Verify(jwt, *pubkeys) *)
Verify ==
  /\ {"jwt", "pubkeys"} \subseteq made
  /\ "result" \notin made
  /\ \E sig_oom \in EcEntries(pubkeys.keys_) \cup {0} :
       LET r == VerifierVerify(verifier.status_, jwt, pubkeys, sig_oom)
       IN  /\ verifier' = [status_ |-> r.status_, verifies |-> verifier.verifies + 1]
           /\ result' = [ret |-> r.ret, calls |-> r.calls, sig_oom |-> sig_oom]
  /\ made' = made \cup {"result"}
  /\ UNCHANGED <<raw_jwt, jwt, pkey, pubkeys, decode, request>>

(* Base64UrlDecode(input) on its own, for a text of the set texts.  For the  *)
(* empty text, reachable through BigNumFromBase64UrlString with a JWK       *)
(* member such as "n": "", line 106 reads input[-1]: when the byte before   *)
(* the data is not '=' the call goes on and returns "" from line 139; when  *)
(* it is '=', pop_back is called on an empty string and the call either     *)
(* returns "" or does not return.                                           *)
Decode(texts) ==
  /\ "decode" \notin made
  /\ \E input \in texts :
       IF input = <<>>
       THEN \E before \in BeforeChoices :
              \E aborted \in (IF before = PAD THEN BOOLEAN ELSE {FALSE}) :
                decode' = [input |-> input, outside |-> {}, before |-> before,
                           output |-> <<>>, aborted |-> aborted,
                           input_reads |-> InputReads(input, before),
                           table_reads |-> {}]
       ELSE \E outside \in OutsideChoices :
              decode' = [input |-> input, outside |-> outside, before |-> 0,
                         output |-> Base64UrlDecodeReading(input, outside),
                         aborted |-> FALSE,
                         input_reads |-> InputReads(input, 0),
                         table_reads |-> TableReads(input, outside)]
  /\ made' = made \cup {"decode"}
  /\ UNCHANGED <<raw_jwt, jwt, pkey, pubkeys, verifier, result, request>>

(* The decoder alone *)
DecodeText == Decode(DecodeInputs)
NextDecode == DecodeText
SpecDecode == Init /\ [][NextDecode]_vars

(* Policies and request headers given to RequestAuthenticator::run *)
Policies ==
  [origins_size : 0..MaxOrigins, principal_binding : {"USE_PEER", "USE_ORIGIN"}]
HeaderMaps ==
  [Method : {NoHeader, Header("GET"), Header("OPTIONS"), Header("POST")},
   Origin : {NoHeader, Header(""), Header("https://a.example")},
   AccessControlRequestMethod : {NoHeader, Header(""), Header("PUT")}]

(* RequestAuthenticator(filter_context, policy).run(payload) *)
Run ==
  /\ "request" \notin made
  /\ \E policy \in Policies : \E headers \in HeaderMaps : \E end_value \in BOOLEAN :
       request' = [policy |-> policy, headers |-> headers,
                   ret |-> RequestAuthenticatorRun(policy, headers, end_value)]
  /\ made' = made \cup {"request"}
  /\ UNCHANGED <<raw_jwt, jwt, pkey, pubkeys, verifier, result, decode>>

(* The request authenticator alone *)
NextRequest == Run
SpecRequest == Init /\ [][NextRequest]_vars

(* Token parsing alone *)
ParseToken == NewJwt(RawTokens)
NextJwt == ParseToken
SpecJwt == Init /\ [][NextJwt]_vars

(* Key loading alone *)
LoadJwks == CreateFromJwks(JwksObjects)
LoadPem == CreateFromPem(PemTexts)
NextKeys == LoadJwks \/ LoadPem
SpecKeys == Init /\ [][NextKeys]_vars

(* Parsing, loading and one Verify on a new Verifier *)
VerifyHeaders == {HeaderSeg(ai, ki) : ai \in {4, 5, 7}, ki \in {1, 3, 4}}
VerifySignatures(h, p) ==
  { Base64UrlEncode(RsaSign(Key1, "sha256", SignedText(h, p))),
    Base64UrlEncode(RsaSign(Key1, "sha384", SignedText(h, p))),
    Base64UrlEncode(EcSign(EcKey1, SignedText(h, p))),
    Base64UrlEncode(EcSign(EcKey1, SignedText(h, p)) \o <<0>>) }
(* RS512 tokens, one of them with a header segment that carries its '=':    *)
(* signed with SHA-512 and with SHA-256 over the raw text, and signed over  *)
(* the text without the '='                                                 *)
PaddedHeader == HeaderSeg(6, 1) \o <<PAD, PAD>>
DigestTokens ==
  UNION { { Dotted(h, GoodPayload,
                   Base64UrlEncode(RsaSign(Key1, md, SignedText(h, GoodPayload)))) :
            md \in {"sha256", "sha512"} } : h \in {HeaderSeg(6, 1), PaddedHeader} }
    \cup { Dotted(PaddedHeader, GoodPayload,
                  Base64UrlEncode(RsaSign(Key1, "sha512",
                                          SignedText(HeaderSeg(6, 1), GoodPayload)))) }
VerifyTokens ==
  UNION { {Dotted(h, GoodPayload, g) : g \in VerifySignatures(h, GoodPayload)} :
          h \in VerifyHeaders }
    \cup DigestTokens
    \cup { GoodHeader \o <<DOT>> \o GoodPayload,
           Dotted(HeaderSeg(3, 1), GoodPayload, GoodSignature),
           Dotted(GoodHeader, NotJsonSeg, GoodSignature),
           Dotted(GoodHeader, GoodPayload, UndecodableSeg) }

VerifyJwkElements ==
  {RsaJwk(kid, alg) : kid \in {Absent, Str("k1"), Str("k2")}, alg \in {Absent, Str("RS256")}}
    \cup {EcJwk(kid, Str("ES256")) : kid \in {Absent, Str("k1"), Str("k2")}}
    \cup { EcJwk(Absent, Absent),
           Jwk(Str("RSA"), Absent, Absent, Str("Ag"), Str("AQAB")),
           Jwk(Str("RSA"), Absent, Absent, Str("A+"), Str("AQAB")) }
VerifyJwksObjects ==
  {JwksObject(List(ks)) : ks \in SeqsUpTo(VerifyJwkElements, MaxKeys)}
    \cup {JwksObject(Absent)}
VerifyPemTexts == {PemKey1, <<65>>}

MakeJwt == NewJwt(VerifyTokens)
MakeJwks == CreateFromJwks(VerifyJwksObjects)
MakePem == CreateFromPem(VerifyPemTexts)
Next == MakeJwt \/ MakeJwks \/ MakePem \/ Verify
Spec == Init /\ [][Next]_vars

(* v.Verify(jwt, *pubkeys) once more, on the Verifier and the arguments of   *)
(* the last call                                                            *)
VerifyAgain ==
  /\ {"jwt", "pubkeys", "result"} \subseteq made
  /\ verifier.verifies < MaxVerifies
  /\ \E sig_oom \in EcEntries(pubkeys.keys_) \cup {0} :
       LET r == VerifierVerify(verifier.status_, jwt, pubkeys, sig_oom)
       IN  /\ verifier' = [status_ |-> r.status_, verifies |-> verifier.verifies + 1]
           /\ result' = [ret |-> r.ret, calls |-> r.calls, sig_oom |-> sig_oom]
  /\ UNCHANGED <<made, raw_jwt, jwt, pkey, pubkeys, decode, request>>

(* The caller lets go of the token and of the key set and keeps the         *)
(* Verifier for the next token and key set                                  *)
NextArguments ==
  /\ "result" \in made
  /\ verifier.verifies < MaxVerifies
  /\ made' = {}
  /\ raw_jwt' = <<>>
  /\ jwt' = DefaultJwt
  /\ pkey' = NoPkey
  /\ pubkeys' = NewPubkeys
  /\ result' = NoResult
  /\ UNCHANGED <<verifier, decode, request>>

(* One Verifier used for several Verify calls *)
ReuseTokens ==
  { Dotted(GoodHeader, GoodPayload, GoodSignature),
    Dotted(HeaderSeg(7, 1), GoodPayload,
           Base64UrlEncode(EcSign(EcKey1, SignedText(HeaderSeg(7, 1), GoodPayload)))),
    Dotted(HeaderSeg(3, 1), GoodPayload, GoodSignature),
    Dotted(GoodHeader, GoodPayload, UndecodableSeg) }
ReuseJwkElements ==
  { RsaJwk(Absent, Absent), RsaJwk(Str("k2"), Absent), EcJwk(Absent, Str("ES256")),
    Jwk(Str("RSA"), Absent, Absent, Str("Ag"), Str("AQAB")) }
ReuseJwksObjects ==
  {JwksObject(List(ks)) : ks \in SeqsUpTo(ReuseJwkElements, MaxKeys)}
    \cup {JwksObject(Absent)}

ReuseJwt == NewJwt(ReuseTokens)
ReuseJwks == CreateFromJwks(ReuseJwksObjects)
ReusePem == CreateFromPem(VerifyPemTexts)
NextReuse == ReuseJwt \/ ReuseJwks \/ ReusePem \/ Verify \/ VerifyAgain \/ NextArguments
SpecReuse == Init /\ [][NextReuse]_vars

(***************************************************************************)
(* Properties                                                              *)
(***************************************************************************)
Verified == "result" \in made
BothOK == jwt.status_ = OK /\ pubkeys.status_ = OK

(* The raw token text before its second '.' *)
RawSignedText(text) ==
  SubSeq(text, 1, (CHOOSE i \in 1..Len(text) :
                     text[i] = DOT /\ \A j \in (i + 1)..Len(text) : text[j] # DOT) - 1)

(* C1: a Verify on a new Verifier returns false with the token's status     *)
(* when that is not OK (whatever the key set's status), else false with the *)
(* key set's status when that is not OK; it returns true only when both     *)
(* statuses are OK.                                                         *)
C1_StatusPropagation ==
  Verified =>
    /\ jwt.status_ # OK => (~result.ret /\ verifier.status_ = jwt.status_)
    /\ (jwt.status_ = OK /\ pubkeys.status_ # OK) =>
         (~result.ret /\ verifier.status_ = pubkeys.status_)
    /\ result.ret => BothOK

C1_Witness ==
  /\ Verified
  /\ jwt.status_ # OK
  /\ pubkeys.status_ # OK
  /\ jwt.status_ # pubkeys.status_
  /\ verifier.status_ = jwt.status_

(* An entry is skipped on the ground of its key id or of its algorithm *)
C3_Skipped(entry) ==
  \/ (jwt.kid_ # "" /\ entry.kid_specified_ /\ entry.kid_ # jwt.kid_)
  \/ (entry.alg_specified_ /\ entry.alg_ # jwt.alg_)
C3_Candidates == {i \in 1..Len(pubkeys.keys_) : ~C3_Skipped(pubkeys.keys_[i])}

(* The signature check with the key of entry i succeeds *)
C3_CheckSucceeds(i) ==
  LET entry == pubkeys.keys_[i]
      data == RawSignedText(raw_jwt)
  IN  IF entry.kty_ = "EC"
      THEN /\ Len(jwt.signature_) = EcSignatureLen
           /\ i # result.sig_oom
           /\ jwt.signature_ = EcSign(entry.ec_key_, data)
      ELSE jwt.signature_ = RsaSign(entry.evp_pkey_, RsaDigest(jwt.alg_), data)

(* C3: with both statuses OK, Verify returns true exactly when the check    *)
(* with the key of some candidate entry succeeds, and it makes a signature  *)
(* check with the key of an entry only if that entry is a candidate; an     *)
(* entry is no candidate exactly when its declared key id differs from a    *)
(* non-empty key id of the token or its declared algorithm differs from the *)
(* token's.                                                                 *)
C3_TrueIffCandidateVerifies ==
  (Verified /\ BothOK) =>
    /\ result.ret <=> (\E i \in C3_Candidates : C3_CheckSucceeds(i))
    /\ \A k \in 1..Len(result.calls) : result.calls[k].entry \in C3_Candidates
    /\ ~result.ret =>
         \A i \in C3_Candidates : \E k \in 1..Len(result.calls) : result.calls[k].entry = i

C3_Witness ==
  /\ Verified /\ BothOK
  /\ result.ret
  /\ jwt.kid_ = ""
  /\ Len(pubkeys.keys_) = 2
  /\ pubkeys.keys_[1].alg_specified_ /\ pubkeys.keys_[1].alg_ # jwt.alg_
  /\ pubkeys.keys_[2].kid_specified_ /\ pubkeys.keys_[2].kid_ = "k2"
  /\ Len(result.calls) = 1
  /\ result.calls[1].entry = 2

(* ECDSA_SIG_new failed during the check with a candidate EC entry *)
C4_SignatureAllocFailed ==
  /\ result.sig_oom \in C3_Candidates
  /\ pubkeys.keys_[result.sig_oom].kty_ = "EC"
  /\ Len(jwt.signature_) = EcSignatureLen

JwksElements == Find(pkey.jwks.fields, "keys").values

(* The document is a JSON object whose "keys" is an array of objects, and no *)
(* allocation failed while it was read                                       *)
JwksWellFormed ==
  /\ "pubkeys" \in made
  /\ pkey.type = "JWKS"
  /\ pkey.jwks.ok
  /\ Find(pkey.jwks.fields, "keys").kind = "list"
  /\ \A i \in 1..Len(JwksElements) : JwksElements[i].kind = "struct"
  /\ pkey.ec_oom = 0

(* A member that is absent or a string *)
OptionalString(v) == v.kind \in {"absent", "string"}
(* A string member that decodes as base64url *)
DecodableString(v) == v.kind = "string" /\ Base64UrlDecode(Chars(v.str)) # <<>>

(* An element of "keys" yields a usable key (section 4.3, contract B) *)
UsableElement(elem) ==
  LET kty == Find(elem.fields, "kty")
      kid == Find(elem.fields, "kid")
      alg == Find(elem.fields, "alg")
      n == Find(elem.fields, "n")
      e == Find(elem.fields, "e")
      x == Find(elem.fields, "x")
      y == Find(elem.fields, "y")
  IN  /\ OptionalString(kid)
      /\ \/ /\ kty = Str("RSA")
            /\ alg \in {Absent, Str("RS256"), Str("RS384"), Str("RS512")}
            /\ DecodableString(n) /\ DecodableString(e)
         \/ /\ kty = Str("EC")
            /\ alg \in {Absent, Str("ES256")}
            /\ DecodableString(x) /\ DecodableString(y)
            /\ OnCurve(Base64UrlDecode(Chars(x.str)), Base64UrlDecode(Chars(y.str)))

UsableElements == SelectSeq(JwksElements, UsableElement)

(* A key entry is the one that a usable element describes *)
EntryOf(entry, elem) ==
  LET kid == Find(elem.fields, "kid")
      alg == Find(elem.fields, "alg")
  IN  /\ entry.kty_ = Find(elem.fields, "kty").str
      /\ entry.kid_specified_ = (kid.kind # "absent") /\ entry.kid_ = kid.str
      /\ entry.alg_specified_ = (alg.kind # "absent") /\ entry.alg_ = alg.str
      /\ ~entry.pem_format_
      /\ IF entry.kty_ = "EC"
         THEN entry.ec_key_ = EcKey(Base64UrlDecode(Chars(Find(elem.fields, "x").str)),
                                    Base64UrlDecode(Chars(Find(elem.fields, "y").str)))
         ELSE entry.evp_pkey_ = RsaKey(Base64UrlDecode(Chars(Find(elem.fields, "n").str)),
                                       Base64UrlDecode(Chars(Find(elem.fields, "e").str)))

(* C2 as claimed: for a JWKS document with a well-formed "keys" array of     *)
(* which at least one element yields a usable key, the key set has status   *)
(* OK and holds exactly the usable entries in document order, however the   *)
(* other elements are malformed.                                            *)
C2_Original ==
  (JwksWellFormed /\ Len(UsableElements) > 0) =>
    /\ pubkeys.status_ = OK
    /\ Len(pubkeys.keys_) = Len(UsableElements)
    /\ \A k \in 1..Len(pubkeys.keys_) : EntryOf(pubkeys.keys_[k], UsableElements[k])

(* C5 as claimed: for a JWKS document with a well-formed "keys" array of     *)
(* which no element yields a usable key, the key set has no entry and its   *)
(* status is JWK_NO_VALID_PUBKEY.                                           *)
C5_Original ==
  (JwksWellFormed /\ Len(UsableElements) = 0) =>
    /\ Len(pubkeys.keys_) = 0
    /\ pubkeys.status_ = "JWK_NO_VALID_PUBKEY"

(* C6: a key set made by CreateFrom, from PEM or from JWKS, that has no key  *)
(* entry has a status other than OK.                                        *)
C6_EmptyNeverOK ==
  "pubkeys" \in made => (Len(pubkeys.keys_) = 0 => pubkeys.status_ # OK)

C6_Witness ==
  /\ JwksWellFormed
  /\ Len(JwksElements) = 2
  /\ Len(pubkeys.keys_) = 0
  /\ pubkeys.status_ = "JWK_NO_VALID_PUBKEY"

(* The algorithms a token may name *)
AllowedAlgs == {"RS256", "RS384", "RS512", "ES256"}

(* What the segments of the raw token hold *)
RawSegments == splitToken(raw_jwt, DOT)
RawHeader == JsonStringToMessage(Base64UrlDecode(RawSegments[1]))
RawPayload == JsonStringToMessage(Base64UrlDecode(RawSegments[2]))
ThreeSegments == Count(raw_jwt, DOT) = 2 /\ Len(RawSegments) = 3

(* A JSON array with an element that is not a string *)
ArrayWithNonString(v) ==
  v.kind = "list" /\ \E i \in 1..Len(v.values) : v.values[i].kind # "string"

(* The error of the first failing step of section 4.2, OK if none fails *)
FirstFailure ==
  IF ~ThreeSegments THEN "JWT_BAD_FORMAT"
  ELSE IF ~RawHeader.ok THEN "JWT_HEADER_PARSE_ERROR"
  ELSE IF Find(RawHeader.fields, "alg").kind = "absent" THEN "JWT_HEADER_NO_ALG"
  ELSE IF Find(RawHeader.fields, "alg").kind # "string" THEN "JWT_HEADER_BAD_ALG"
  ELSE IF Find(RawHeader.fields, "alg").str \notin AllowedAlgs THEN "ALG_NOT_IMPLEMENTED"
  ELSE IF ~OptionalString(Find(RawHeader.fields, "kid")) THEN "JWT_HEADER_BAD_KID"
  ELSE IF ~RawPayload.ok THEN "JWT_PAYLOAD_PARSE_ERROR"
  ELSE IF ArrayWithNonString(Find(RawPayload.fields, "aud")) THEN "JWT_PAYLOAD_PARSE_ERROR"
  ELSE IF Base64UrlDecode(RawSegments[3]) = <<>> THEN "JWT_SIGNATURE_PARSE_ERROR"
  ELSE OK

(* The fields that the steps after the failing one would set are at their   *)
(* default values                                                           *)
LaterFieldsDefault ==
  /\ jwt.status_ \in {"JWT_BAD_FORMAT", "JWT_HEADER_PARSE_ERROR", "JWT_HEADER_NO_ALG",
                      "JWT_HEADER_BAD_ALG"} => jwt.alg_ = ""
  /\ jwt.status_ \in {"JWT_BAD_FORMAT", "JWT_HEADER_PARSE_ERROR", "JWT_HEADER_NO_ALG",
                      "JWT_HEADER_BAD_ALG", "ALG_NOT_IMPLEMENTED", "JWT_HEADER_BAD_KID"} =>
       /\ jwt.kid_ = ""
       /\ jwt.payload_str_ = <<>>
       /\ jwt.iss_ = "" /\ jwt.sub_ = "" /\ jwt.exp_ = 0
  /\ jwt.status_ \in {"JWT_BAD_FORMAT", "JWT_HEADER_PARSE_ERROR", "JWT_HEADER_NO_ALG",
                      "JWT_HEADER_BAD_ALG", "ALG_NOT_IMPLEMENTED", "JWT_HEADER_BAD_KID",
                      "JWT_PAYLOAD_PARSE_ERROR"} =>
       /\ jwt.aud_ = <<>>
       /\ jwt.signature_ = <<>>

(* C7 as claimed: the status of a token is the error of the first failing   *)
(* step in the order BAD_FORMAT, HEADER_PARSE_ERROR, HEADER_NO_ALG,         *)
(* HEADER_BAD_ALG, ALG_NOT_IMPLEMENTED, HEADER_BAD_KID, PAYLOAD_PARSE_ERROR, *)
(* SIGNATURE_PARSE_ERROR, and the fields that later steps would set are at  *)
(* their default values.                                                    *)
C7_Original ==
  "jwt" \in made =>
    /\ jwt.status_ = FirstFailure
    /\ LaterFieldsDefault

(* C8: when the header decodes to a JSON object, a missing alg gives        *)
(* JWT_HEADER_NO_ALG, an alg that is not a string JWT_HEADER_BAD_ALG, and a *)
(* string outside the allowed algorithms ALG_NOT_IMPLEMENTED; a token with  *)
(* status OK has an allowed algorithm.                                      *)
C8_AlgChecked ==
  "jwt" \in made =>
    /\ (ThreeSegments /\ RawHeader.ok) =>
         LET alg == Find(RawHeader.fields, "alg")
         IN  /\ alg.kind = "absent" => jwt.status_ = "JWT_HEADER_NO_ALG"
             /\ alg.kind \notin {"absent", "string"} => jwt.status_ = "JWT_HEADER_BAD_ALG"
             /\ (alg.kind = "string" /\ alg.str \notin AllowedAlgs) =>
                  jwt.status_ = "ALG_NOT_IMPLEMENTED"
    /\ jwt.status_ = OK => jwt.alg_ \in AllowedAlgs

C8_Witness ==
  /\ "jwt" \in made
  /\ ThreeSegments /\ RawHeader.ok
  /\ Find(RawHeader.fields, "alg") = Str("none")
  /\ jwt.status_ = "ALG_NOT_IMPLEMENTED"

(* C9: a raw token whose number of '.' is not 2 gets the status             *)
(* JWT_BAD_FORMAT, and none of its segments is decoded.                     *)
C9_BadFormat ==
  ("jwt" \in made /\ Count(raw_jwt, DOT) # 2) =>
    /\ jwt.status_ = "JWT_BAD_FORMAT"
    /\ jwt.decoded = <<>>
    /\ jwt.header_str_ = <<>> /\ jwt.payload_str_ = <<>> /\ jwt.signature_ = <<>>

C9_Witness ==
  /\ "jwt" \in made
  /\ Count(raw_jwt, DOT) = 3
  /\ Len(RawSegments) = 3
  /\ jwt.status_ = "JWT_BAD_FORMAT"
  /\ jwt.decoded = <<>>

(* C10 as claimed: when header and payload of the token parse, an aud that   *)
(* is an array of strings gives that sequence as the audience, an aud that  *)
(* is a string s gives <<s>>, an absent aud gives the empty sequence, and   *)
(* in the three cases the status is the one the signature step leaves.      *)
C10_Original ==
  ("jwt" \in made /\ FirstFailure \in {OK, "JWT_SIGNATURE_PARSE_ERROR"}) =>
    LET aud == Find(RawPayload.fields, "aud")
    IN  /\ (aud.kind = "list" /\ ~ArrayWithNonString(aud)) =>
             /\ jwt.aud_ = [i \in 1..Len(aud.values) |-> aud.values[i].str]
             /\ jwt.status_ = FirstFailure
        /\ aud.kind = "string" =>
             /\ jwt.aud_ = <<aud.str>>
             /\ jwt.status_ = FirstFailure
        /\ aud.kind = "absent" =>
             /\ jwt.aud_ = <<>>
             /\ jwt.status_ = FirstFailure

(* C11 as claimed: when no earlier step fails and the aud of the payload is  *)
(* an array with an element that is not a string, the status of the token   *)
(* is JWT_PAYLOAD_PARSE_ERROR.                                              *)
C11_Original ==
  ("jwt" \in made /\ FirstFailure = "JWT_PAYLOAD_PARSE_ERROR" /\ RawPayload.ok) =>
    jwt.status_ = "JWT_PAYLOAD_PARSE_ERROR"

(* C12: a token with status OK has a non-empty signature, and when no       *)
(* earlier step fails a third segment that does not decode gives the        *)
(* status JWT_SIGNATURE_PARSE_ERROR.                                        *)
C12_SignatureNotEmpty ==
  "jwt" \in made =>
    /\ jwt.status_ = OK => jwt.signature_ # <<>>
    /\ (FirstFailure \in {OK, "JWT_SIGNATURE_PARSE_ERROR"} /\
        Base64UrlDecode(RawSegments[3]) = <<>>) =>
         /\ jwt.status_ = "JWT_SIGNATURE_PARSE_ERROR"
         /\ jwt.signature_ = <<>>

C12_Witness ==
  /\ "jwt" \in made
  /\ ThreeSegments
  /\ RawSegments[3] = UndecodableSeg
  /\ jwt.alg_ = "ES256" /\ jwt.kid_ = "k1" /\ jwt.iss_ = "issuer"
  /\ jwt.status_ = "JWT_SIGNATURE_PARSE_ERROR"

(* The entries of the VerifySignature calls of the last Verify, in the order *)
(* of the calls                                                              *)
CalledEntries == [k \in 1..Len(result.calls) |-> result.calls[k].entry]
Range(seq) == {seq[k] : k \in 1..Len(seq)}

(* C13: the signature checks of one Verify are made in the order of the key  *)
(* entries, at most one (RSA or EC) for an entry, and the check that        *)
(* succeeds is the last one: it is made with the first candidate entry      *)
(* whose key verifies, and Verify returns true with no entry after it       *)
(* examined.                                                                *)
C13_InOrderFirstWins ==
  Verified =>
    /\ \A k \in 1..(Len(CalledEntries) - 1) : CalledEntries[k] < CalledEntries[k + 1]
    /\ \A k \in 1..Len(CalledEntries) : CalledEntries[k] \in 1..Len(pubkeys.keys_)
    /\ \A k \in 1..Len(result.calls) :
         result.calls[k].fn =
           IF pubkeys.keys_[CalledEntries[k]].kty_ = "EC" THEN "VerifySignatureEC"
           ELSE "VerifySignatureRSA"
    /\ \A k \in 1..(Len(CalledEntries) - 1) : ~C3_CheckSucceeds(CalledEntries[k])
    /\ result.ret =>
         /\ Len(CalledEntries) > 0
         /\ C3_CheckSucceeds(CalledEntries[Len(CalledEntries)])

C13_Witness ==
  /\ Verified /\ result.ret
  /\ Len(pubkeys.keys_) = 2
  /\ C3_Candidates = {1, 2}
  /\ C3_CheckSucceeds(1) /\ C3_CheckSucceeds(2)
  /\ CalledEntries = <<1>>

(* C14 as claimed: the pair (bool, Status) of a Verify is the pair that a    *)
(* Verify with the same token and key set gives on a Verifier that made no  *)
(* call before, whatever calls were made earlier through the Verifier.      *)
C14_Original ==
  Verified =>
    LET unused == VerifierVerify(OK, jwt, pubkeys, result.sig_oom)
    IN  /\ result.ret = unused.ret
        /\ verifier.status_ = unused.status_

(* The characters A-Z a-z 0-9 - _ *)
AlphabetChars == (65..90) \cup (97..122) \cup (48..57) \cup {MINUS, UNDERSCORE}

(* C15: Base64UrlDecode returns the empty string for an input with a byte    *)
(* outside A-Z a-z 0-9 - _ =, bytes of 128 or more included, and for an     *)
(* input without '=' whose length modulo 4 is 1.                            *)
C15_RejectsOutsideAlphabet ==
  "decode" \in made =>
    /\ (\E i \in 1..Len(decode.input) : decode.input[i] \notin AlphabetChars \cup {PAD}) =>
         decode.output = <<>>
    /\ ((\A i \in 1..Len(decode.input) : decode.input[i] # PAD) /\
        Len(decode.input) % 4 = 1) =>
         decode.output = <<>>

C15_Witness ==
  /\ "decode" \in made
  /\ Len(decode.input) = 4
  /\ \E i \in 1..4 : decode.input[i] >= 128
  /\ \A i \in 1..4 : decode.input[i] \in AlphabetChars \/ decode.input[i] >= 128
  /\ decode.outside = {}
  /\ decode.output = <<>>

(* The number of '=' that close a text *)
TrailingPads(text) ==
  Len(text) - (IF \A i \in 1..Len(text) : text[i] = PAD THEN 0
               ELSE CHOOSE k \in 1..Len(text) :
                      text[k] # PAD /\ \A j \in (k + 1)..Len(text) : text[j] = PAD)

(* The length is a multiple of 4 and the text ends with one or two '=' that *)
(* only characters of the alphabet precede                                  *)
WellPadded(text) ==
  /\ Len(text) % 4 = 0
  /\ TrailingPads(text) \in {1, 2}
  /\ \A i \in 1..(Len(text) - TrailingPads(text)) : text[i] \in AlphabetChars

(* C16: for a well padded input the result of Base64UrlDecode is the result  *)
(* for the input without its trailing '='; an input with a '=' that is not  *)
(* well padded gives the empty string.                                      *)
C16_PaddingTolerance ==
  "decode" \in made =>
    /\ WellPadded(decode.input) =>
         decode.output =
           Base64UrlDecode(SubSeq(decode.input, 1,
                                  Len(decode.input) - TrailingPads(decode.input)))
    /\ ((\E i \in 1..Len(decode.input) : decode.input[i] = PAD) /\
        ~WellPadded(decode.input)) =>
         decode.output = <<>>

C16_Witness ==
  /\ "decode" \in made
  /\ WellPadded(decode.input)
  /\ TrailingPads(decode.input) = 2
  /\ decode.output = <<65>>

(* A token with key id kid and algorithm alg skips the entry *)
SkippedFor(kid, alg, entry) ==
  \/ (kid # "" /\ entry.kid_specified_ /\ entry.kid_ # kid)
  \/ (entry.alg_specified_ /\ entry.alg_ # alg)

(* C17: a key set made from PEM text has status PEM_PUBKEY_BAD_BASE64 and no *)
(* entry when the text does not decode as base64, status                    *)
(* PEM_PUBKEY_PARSE_ERROR and no entry when the decoded bytes are no RSA    *)
(* public key, and otherwise status OK and one entry that declares neither  *)
(* key id nor algorithm and so is skipped for no token.                     *)
C17_PemKeySet ==
  ("pubkeys" \in made /\ pkey.type = "PEM") =>
    LET der == Base64Decode(pkey.pem)
    IN  IF der = <<>>
        THEN pubkeys.status_ = "PEM_PUBKEY_BAD_BASE64" /\ pubkeys.keys_ = <<>>
        ELSE IF RSA_public_key_from_bytes(der) = NullKey
        THEN pubkeys.status_ = "PEM_PUBKEY_PARSE_ERROR" /\ pubkeys.keys_ = <<>>
        ELSE /\ pubkeys.status_ = OK
             /\ Len(pubkeys.keys_) = 1
             /\ ~pubkeys.keys_[1].kid_specified_
             /\ ~pubkeys.keys_[1].alg_specified_
             /\ pubkeys.keys_[1].evp_pkey_ = RSA_public_key_from_bytes(der)
             /\ \A kid \in {"", "k1", "k2"} : \A alg \in AllowedAlgs :
                  ~SkippedFor(kid, alg, pubkeys.keys_[1])

C17_Witness ==
  /\ "pubkeys" \in made /\ pkey.type = "PEM"
  /\ Base64Decode(pkey.pem) # <<>>
  /\ pubkeys.status_ = "PEM_PUBKEY_PARSE_ERROR"
  /\ pubkeys.keys_ = <<>>

(* C18 as claimed: a JWKS text that is no JSON object gives JWK_PARSE_ERROR, *)
(* an object without "keys" gives JWK_NO_KEYS, and a "keys" that is not an  *)
(* array, or an array with an element that is not an object, gives          *)
(* JWK_BAD_KEYS; in each case the key set has no entry.                     *)
C18_Original ==
  ("pubkeys" \in made /\ pkey.type = "JWKS") =>
    LET keys == Find(pkey.jwks.fields, "keys")
    IN  /\ ~pkey.jwks.ok =>
             pubkeys.status_ = "JWK_PARSE_ERROR" /\ pubkeys.keys_ = <<>>
        /\ (pkey.jwks.ok /\ keys.kind = "absent") =>
             pubkeys.status_ = "JWK_NO_KEYS" /\ pubkeys.keys_ = <<>>
        /\ (pkey.jwks.ok /\ keys.kind \notin {"absent", "list"}) =>
             pubkeys.status_ = "JWK_BAD_KEYS" /\ pubkeys.keys_ = <<>>
        /\ (pkey.jwks.ok /\ keys.kind = "list" /\
            \E i \in 1..Len(keys.values) : keys.values[i].kind # "struct") =>
             pubkeys.status_ = "JWK_BAD_KEYS" /\ pubkeys.keys_ = <<>>

(* The "keys" member is an array of objects *)
KeysArrayOfObjects ==
  /\ "pubkeys" \in made
  /\ pkey.type = "JWKS"
  /\ pkey.jwks.ok
  /\ Find(pkey.jwks.fields, "keys").kind = "list"
  /\ \A i \in 1..Len(JwksElements) : JwksElements[i].kind = "struct"

(* An element may be admitted: kty is "RSA" or "EC", kid is absent or a      *)
(* string, alg is absent or an algorithm of the key type                    *)
Admissible(elem) ==
  LET kty == Find(elem.fields, "kty")
      alg == Find(elem.fields, "alg")
  IN  /\ OptionalString(Find(elem.fields, "kid"))
      /\ \/ kty = Str("RSA") /\ alg \in {Absent, Str("RS256"), Str("RS384"), Str("RS512")}
         \/ kty = Str("EC") /\ alg \in {Absent, Str("ES256")}

(* The elements that are appended, in document order: those that yield a    *)
(* usable key, but for the one whose EC key object could not be allocated   *)
AppendedElements ==
  LET idx == {i \in 1..Len(JwksElements) :
                UsableElement(JwksElements[i]) /\ i # pkey.ec_oom}
      nth(k) == CHOOSE i \in idx : Cardinality({j \in idx : j < i}) = k - 1
  IN  [k \in 1..Cardinality(idx) |-> JwksElements[nth(k)]]

(* C19: the entries of a key set made from JWKS are those of elements whose  *)
(* kty is "RSA" or "EC", whose kid and alg are absent or strings and whose  *)
(* alg, if declared, is RS256, RS384 or RS512 for RSA and ES256 for EC; no  *)
(* other element is appended, and an entry has kid_specified_ and           *)
(* alg_specified_ true exactly when the element has the member.             *)
C19_Admission ==
  KeysArrayOfObjects =>
    /\ Len(pubkeys.keys_) = Len(AppendedElements)
    /\ \A k \in 1..Len(pubkeys.keys_) :
         /\ Admissible(AppendedElements[k])
         /\ EntryOf(pubkeys.keys_[k], AppendedElements[k])
    /\ Len(pubkeys.keys_) <=
         Cardinality({i \in 1..Len(JwksElements) : Admissible(JwksElements[i])})

C19_Witness ==
  /\ KeysArrayOfObjects
  /\ Len(JwksElements) = 2
  /\ Find(JwksElements[1].fields, "alg") = Str("HS256")
  /\ Len(pubkeys.keys_) = 1
  /\ pubkeys.keys_[1].kid_specified_
  /\ ~pubkeys.keys_[1].alg_specified_

(* The candidate entries that hold an EC key *)
EcCandidates == {i \in C3_Candidates : pubkeys.keys_[i].kty_ = "EC"}

(* C20: with a candidate EC entry and a signature that is not 64 bytes long, *)
(* the check with that entry fails and records no status, whether or not an *)
(* ECDSA_SIG can be allocated; Verify goes on with the other entries, and   *)
(* when none verifies the status is JWT_INVALID_SIGNATURE.                  *)
C20_ShortEcSignature ==
  (Verified /\ BothOK /\ EcCandidates # {} /\ Len(jwt.signature_) # EcSignatureLen) =>
    /\ verifier.status_ # "FAILED_CREATE_ECDSA_SIGNATURE"
    /\ result.ret =>
         /\ verifier.status_ = OK
         /\ result.calls[Len(result.calls)].fn = "VerifySignatureRSA"
         /\ \A i \in C3_Candidates :
              i <= result.calls[Len(result.calls)].entry => i \in Range(CalledEntries)
    /\ ~result.ret =>
         /\ verifier.status_ = "JWT_INVALID_SIGNATURE"
         /\ Range(CalledEntries) = C3_Candidates

C20_Witness ==
  /\ Verified /\ BothOK
  /\ Len(jwt.signature_) = EcSignatureLen + 1
  /\ Len(pubkeys.keys_) = 2
  /\ EcCandidates = {1}
  /\ result.sig_oom = 1
  /\ CalledEntries = <<1, 2>>
  /\ ~result.ret
  /\ verifier.status_ = "JWT_INVALID_SIGNATURE"

(* The digest that goes with the algorithm the header of the raw token names *)
DigestOfRawAlg ==
  LET alg == Find(RawHeader.fields, "alg").str
  IN  IF alg = "RS384" THEN "sha384" ELSE IF alg = "RS512" THEN "sha512" ELSE "sha256"

(* C21: every RSA check of a Verify uses SHA-384 when the token's alg is     *)
(* RS384, SHA-512 when it is RS512 and SHA-256 otherwise, whatever the key  *)
(* entry declares, and the data of every check is the raw token text before *)
(* its second '.'; so an RSA check succeeds exactly for a signature made    *)
(* with that digest over that text.                                         *)
C21_DigestAndSignedData ==
  Verified =>
    \A k \in 1..Len(result.calls) :
      LET call == result.calls[k]
      IN  /\ call.signed_data = RawSignedText(raw_jwt)
          /\ call.fn = "VerifySignatureRSA" =>
               /\ call.md = DigestOfRawAlg
               /\ (result.ret /\ k = Len(result.calls)) =>
                    jwt.signature_ = RsaSign(call.key, DigestOfRawAlg, RawSignedText(raw_jwt))

C21_Witness ==
  /\ Verified /\ result.ret
  /\ jwt.alg_ = "RS512"
  /\ jwt.header_str_base64url_ = PaddedHeader
  /\ Base64UrlEncode(jwt.header_str_) # jwt.header_str_base64url_
  /\ Len(result.calls) = 2
  /\ result.calls[2].md = "sha512"
  /\ result.calls[2].signed_data = SignedText(PaddedHeader, GoodPayload)

(* The request is a CORS preflight: method OPTIONS with a non-empty Origin  *)
(* and a non-empty Access-Control-Request-Method                            *)
Preflight ==
  /\ request.headers.Method = Header("OPTIONS")
  /\ request.headers.Origin.present /\ request.headers.Origin.value # ""
  /\ request.headers.AccessControlRequestMethod.present
  /\ request.headers.AccessControlRequestMethod.value # ""

(* C22 as claimed: RequestAuthenticator::run returns true for a CORS         *)
(* preflight request whatever the policy is, a policy with no origin method *)
(* and principal binding USE_ORIGIN included.                               *)
C22_Original ==
  ("request" \in made /\ Preflight) => request.ret

(* The signature check that made the last Verify return true *)
AcceptingCall == result.calls[Len(result.calls)]

(* C23 as claimed: when Verify returns true through an RSA check the token's *)
(* alg is not ES256, and when it returns true through an ECDSA check the    *)
(* token's alg is none of RS256, RS384, RS512, whatever the key set is.     *)
C23_Original ==
  (Verified /\ result.ret) =>
    /\ AcceptingCall.fn = "VerifySignatureRSA" => jwt.alg_ # "ES256"
    /\ AcceptingCall.fn = "VerifySignatureEC" => jwt.alg_ \notin {"RS256", "RS384", "RS512"}

(* C24 as claimed: a Base64UrlDecode call reads its input only at indexes    *)
(* from 0 to length - 1 and the 256-entry table only at indexes from 0 to   *)
(* 255, for the empty string and for bytes of 128 or more as well.          *)
C24_Original ==
  "decode" \in made =>
    /\ decode.input_reads \subseteq 0..(Len(decode.input) - 1)
    /\ decode.table_reads \subseteq 0..255

(* The positions of the '.' of the raw token *)
DotPositions == {i \in 1..Len(raw_jwt) : raw_jwt[i] = DOT}
(* The raw token has two '.' and begins with one, ends with one, or has the *)
(* two side by side                                                         *)
TwoDotsEmptySegment ==
  /\ Cardinality(DotPositions) = 2
  /\ \/ 1 \in DotPositions
     \/ Len(raw_jwt) \in DotPositions
     \/ \E i \in DotPositions : i + 1 \in DotPositions
(* The text after the last '.' of the raw token *)
ThirdSegment ==
  SubSeq(raw_jwt, (CHOOSE i \in DotPositions : \A j \in DotPositions : j <= i) + 1,
         Len(raw_jwt))

(* C25: a raw token with exactly two '.' and an empty segment gets the       *)
(* status JWT_BAD_FORMAT with nothing decoded; Base64UrlDecode is never     *)
(* called on an empty segment; and JWT_SIGNATURE_PARSE_ERROR is the status  *)
(* only of a token whose third segment is not empty and does not decode.    *)
C25_EmptySegment ==
  "jwt" \in made =>
    /\ TwoDotsEmptySegment =>
         /\ jwt.status_ = "JWT_BAD_FORMAT"
         /\ jwt.decoded = <<>>
         /\ jwt.signature_ = <<>>
    /\ \A k \in 1..Len(jwt.decoded) : jwt.decoded[k] # <<>>
    /\ jwt.status_ = "JWT_SIGNATURE_PARSE_ERROR" =>
         /\ Cardinality(DotPositions) = 2
         /\ ~TwoDotsEmptySegment
         /\ ThirdSegment # <<>>
         /\ jwt.decoded[Len(jwt.decoded)] = ThirdSegment
         /\ Base64UrlDecode(ThirdSegment) = <<>>

C25_Witness ==
  /\ "jwt" \in made
  /\ raw_jwt = GoodHeader \o <<DOT>> \o GoodPayload \o <<DOT>>
  /\ jwt.status_ = "JWT_BAD_FORMAT"
  /\ jwt.decoded = <<>>

(* C26 as claimed: after a Verify that returned true the status of the       *)
(* Verifier is OK, whatever Verify calls it made before and whatever the    *)
(* earlier key entries of the same call did.                                *)
C26_Original ==
  (Verified /\ result.ret) => verifier.status_ = OK

====
